---- MODULE Spec2Model ----
(***************************************************************************)
(* Model of the signal pipeline of src/app.py: handle_inclusion,           *)
(* find_strokes, calculate_zhongshu, check_divergence, check_sell_signals  *)
(* and analyze_stock, of the scan loop of main, and of the two files the   *)
(* page keeps (the watchlist and the analysis history).                    *)
(*                                                                         *)
(* Specifications.                                                         *)
(*   Spec        one call of analyze_stock on a fetched series             *)
(*   ScanSpec    the scan of main over a list of symbols                   *)
(*   BarsSpec    handle_inclusion and calculate_zhongshu on short windows  *)
(*   StrokeSpec  find_strokes, one loop iteration at a time                *)
(*   DivSpec     check_divergence on given strokes, band and close         *)
(*   HistorySpec save_analysis_history, scan after scan                    *)
(*   WatchSpec   add_to_watchlist and remove_from_watchlist                *)
(*                                                                         *)
(* Numbers.  Bar prices are integers (price ticks).  The code computes in  *)
(* floating point; the model computes the same expressions exactly, over   *)
(* scaled integers:                                                        *)
(*   - a pivot-band edge (zhongshu low/high) is kept times 10: the         *)
(*     midpoint halves and the 0.40/0.60 quantile interpolates in fifths;  *)
(*   - a price level of the result (entry, stop, target) is kept times     *)
(*     1000: 0.98 x (band edge) needs three decimals;                      *)
(*   - a percentage is the pair [num, den] that stands for num / den.      *)
(* Python's None is the empty sequence <<>>, a present value v is <<v>>.   *)
(*                                                                         *)
(* Labels.  The code's Chinese string constants are written in English:    *)
(*   signal: "无" none, "三卖" third_sell, "二卖" second_sell,             *)
(*           "三买" breakout, "三买+背驰" breakout+divergence,             *)
(*           "一买" base, "一买+背驰" base+divergence                      *)
(*   action: "观望" hold, "卖出" sell, "减仓" reduce, "买入" buy,          *)
(*           "关注" watch                                                  *)
(*   risk:   "中" medium, "高" high                                        *)
(*   divergence_type: "底背驰" bottom, "顶背驰" top                        *)
(***************************************************************************)
EXTENDS Integers, Sequences, FiniteSets, TLC

VARIABLES
    feed,        \* pro.daily's outcome: it raises, returns None, or returns bars
    days,        \* the lookback argument of analyze_stock
    pc,          \* "call" before analyze_stock runs, "done" after
    strokes,     \* analyze_stock's local: the stroke list
    zhongshu,    \* analyze_stock's local: the pivot band (times 10)
    divergence,  \* analyze_stock's local: check_divergence's result
    sell_signal, \* analyze_stock's local: check_sell_signals' result
    result,      \* what analyze_stock returned: <<>> (None) or <<record>>
    market,      \* the scan: pro.daily's outcome for each symbol
    stock_list,  \* main's stock_list: the symbols to scan, in order
    scan_pos,    \* main's loop: how many symbols it has gone through
    results,     \* main's results list
    frame,       \* the bar window handed to a pipeline stage
    df_processed,         \* handle_inclusion's output
    fractal_list,         \* find_strokes' fractals
    fractal_pos,          \* find_strokes' loop: how many fractals it has gone through
    current_stroke_start, \* find_strokes' pending fractal: <<>> or <<fractal>>
    ding_count,           \* find_strokes' second return value: the tops found
    di_count,             \* find_strokes' third return value: the bottoms found
    watchlist,            \* the content of WATCHLIST_FILE
    history,              \* the content of HISTORY_FILE
    called,               \* the last call on the watchlist and what it returned
    now                   \* the clock: what datetime.now() reads

callVars == <<feed, days, strokes, zhongshu, divergence, sell_signal, result>>
scanVars == <<market, stock_list, scan_pos, results>>
stageVars == <<frame, df_processed, fractal_list, fractal_pos, current_stroke_start,
               ding_count, di_count>>
fileVars == <<watchlist, history, called, now>>
vars == <<pc, callVars, scanVars, stageVars, fileVars>>

None == <<>>
Some(v) == <<v>>

Max2(a, b) == IF a >= b THEN a ELSE b
Min2(a, b) == IF a <= b THEN a ELSE b
Abs(x) == IF x < 0 THEN -x ELSE x

\* 0-based access, as df.iloc[i] and list[i]
At(s, i) == s[i + 1]
\* list[-k], k >= 1
FromEnd(s, k) == s[Len(s) - k + 1]

\* [s for s in strokes if s['type'] == t]
OfType(ss, t) == SelectSeq(ss, LAMBDA s : s.type = t)

(***************************************************************************)
(* handle_inclusion: the scan keeps a current candle and merges every      *)
(* following bar that contains it or is contained in it.                   *)
(***************************************************************************)
is_included(cur, nx) == nx.high >= cur.high /\ nx.low <= cur.low
is_including(cur, nx) == nx.high <= cur.high /\ nx.low >= cur.low

MergeCandle(cur, nx) ==
    [cur EXCEPT !.high = Max2(cur.high, nx.high),
                !.low = Min2(cur.low, nx.low),
                !.open = nx.open,
                !.close = nx.close]

RECURSIVE InclusionScan(_, _, _, _)
\* j: 0-based index of the next bar; cur: the current candle; out: processed_candles
InclusionScan(df, j, cur, out) ==
    IF j >= Len(df) THEN Append(out, cur)
    ELSE LET nx == At(df, j) IN
         IF is_included(cur, nx) \/ is_including(cur, nx)
         THEN InclusionScan(df, j + 1, MergeCandle(cur, nx), out)
         ELSE InclusionScan(df, j + 1, nx, Append(out, cur))

handle_inclusion(df) ==
    IF df = <<>> THEN df ELSE InclusionScan(df, 1, At(df, 0), <<>>)

(***************************************************************************)
(* Fractals.  idx is the 0-based index of p3; the candidate is p2 = idx-1. *)
(***************************************************************************)
is_top_fractal(df, idx) ==
    IF idx < 2 \/ idx >= Len(df) THEN FALSE
    ELSE LET p2 == At(df, idx - 1)
             p1 == At(df, idx - 2)
             p3 == At(df, idx)
         IN p2.high > p1.high /\ p2.high > p3.high
            /\ p2.low > p1.low /\ p2.low > p3.low

\* a mutant of is_bottom_fractal: a low equal to the next bar's low is enough
is_bottom_fractal_tie(df, idx) ==
    IF idx < 2 \/ idx >= Len(df) THEN FALSE
    ELSE LET p2 == At(df, idx - 1)
             p1 == At(df, idx - 2)
             p3 == At(df, idx)
         IN p2.low < p1.low /\ p2.low <= p3.low
            /\ p2.high < p1.high /\ p2.high < p3.high

is_bottom_fractal(df, idx) ==
    IF idx < 2 \/ idx >= Len(df) THEN FALSE
    ELSE LET p2 == At(df, idx - 1)
             p1 == At(df, idx - 2)
             p3 == At(df, idx)
         IN p2.low < p1.low /\ p2.low < p3.low
            /\ p2.high < p1.high /\ p2.high < p3.high

RECURSIVE FractalScanShort(_, _, _)
\* a mutant of FractalScan: the loop stops one bar early
FractalScanShort(df, i, fractals) ==
    IF i >= Len(df) - 1 THEN fractals
    ELSE IF is_top_fractal(df, i)
         THEN FractalScanShort(df, i + 1,
                  Append(fractals, [idx |-> i - 1, type |-> "top",
                                    price |-> At(df, i - 1).high]))
         ELSE IF is_bottom_fractal(df, i)
         THEN FractalScanShort(df, i + 1,
                  Append(fractals, [idx |-> i - 1, type |-> "bottom",
                                    price |-> At(df, i - 1).low]))
         ELSE FractalScanShort(df, i + 1, fractals)

RECURSIVE FractalScan(_, _, _)
\* the loop "for i in range(2, len(df))"
FractalScan(df, i, fractals) ==
    IF i >= Len(df) THEN fractals
    ELSE IF is_top_fractal(df, i)
         THEN FractalScan(df, i + 1,
                  Append(fractals, [idx |-> i - 1, type |-> "top",
                                    price |-> At(df, i - 1).high]))
         ELSE IF is_bottom_fractal(df, i)
         THEN FractalScan(df, i + 1,
                  Append(fractals, [idx |-> i - 1, type |-> "bottom",
                                    price |-> At(df, i - 1).low]))
         ELSE FractalScan(df, i + 1, fractals)

\* a mutant of StrokeStep: a stroke runs from the candidate's price to the
\* pending fractal's
StrokeStepBackwards(start, cf, ss) ==
    IF cf.type # start.type
    THEN IF cf.idx - start.idx >= 2
         THEN IF start.type = "bottom" /\ cf.type = "top" /\ cf.price > start.price
              THEN <<cf, Append(ss, [type |-> "up", start |-> cf.price,
                                     end |-> start.price])>>
              ELSE IF start.type = "top" /\ cf.type = "bottom"
                      /\ cf.price < start.price
              THEN <<cf, Append(ss, [type |-> "down", start |-> cf.price,
                                     end |-> start.price])>>
              ELSE <<cf, ss>>
         ELSE <<cf, ss>>
    ELSE IF (cf.type = "top" /\ cf.price > start.price)
            \/ (cf.type = "bottom" /\ cf.price < start.price)
         THEN <<cf, ss>>
         ELSE <<start, ss>>

\* a mutant of StrokeStep: a candidate of the pending fractal's kind replaces it
\* on a tie
StrokeStepTieReplaces(start, cf, ss) ==
    IF cf.type # start.type
    THEN IF cf.idx - start.idx >= 2
         THEN IF start.type = "bottom" /\ cf.type = "top" /\ cf.price > start.price
              THEN <<cf, Append(ss, [type |-> "up", start |-> start.price,
                                     end |-> cf.price])>>
              ELSE IF start.type = "top" /\ cf.type = "bottom"
                      /\ cf.price < start.price
              THEN <<cf, Append(ss, [type |-> "down", start |-> start.price,
                                     end |-> cf.price])>>
              ELSE <<cf, ss>>
         ELSE <<cf, ss>>
    ELSE IF (cf.type = "top" /\ cf.price >= start.price)
            \/ (cf.type = "bottom" /\ cf.price <= start.price)
         THEN <<cf, ss>>
         ELSE <<start, ss>>

\* a mutant of StrokeStep: a candidate next to the pending fractal is accepted
StrokeStepAdjacent(start, cf, ss) ==
    IF cf.type # start.type
    THEN IF cf.idx - start.idx >= 1
         THEN IF start.type = "bottom" /\ cf.type = "top" /\ cf.price > start.price
              THEN <<cf, Append(ss, [type |-> "up", start |-> start.price,
                                     end |-> cf.price])>>
              ELSE IF start.type = "top" /\ cf.type = "bottom"
                      /\ cf.price < start.price
              THEN <<cf, Append(ss, [type |-> "down", start |-> start.price,
                                     end |-> cf.price])>>
              ELSE <<cf, ss>>
         ELSE <<cf, ss>>
    ELSE IF (cf.type = "top" /\ cf.price > start.price)
            \/ (cf.type = "bottom" /\ cf.price < start.price)
         THEN <<cf, ss>>
         ELSE <<start, ss>>

\* one iteration of the loop over fractals, for a set current_stroke_start:
\* the new <<current_stroke_start, strokes>>
StrokeStep(start, cf, ss) ==
    IF cf.type # start.type
    THEN IF cf.idx - start.idx >= 2
         THEN IF start.type = "bottom" /\ cf.type = "top" /\ cf.price > start.price
              THEN <<cf, Append(ss, [type |-> "up", start |-> start.price,
                                     end |-> cf.price])>>
              ELSE IF start.type = "top" /\ cf.type = "bottom"
                      /\ cf.price < start.price
              THEN <<cf, Append(ss, [type |-> "down", start |-> start.price,
                                     end |-> cf.price])>>
              ELSE <<cf, ss>>
         ELSE <<cf, ss>>
    ELSE IF (cf.type = "top" /\ cf.price > start.price)
            \/ (cf.type = "bottom" /\ cf.price < start.price)
         THEN <<cf, ss>>
         ELSE <<start, ss>>

RECURSIVE StrokeScan(_, _, _, _)
\* the loop "for i in range(len(fractals))"; start is None or Some(fractal)
StrokeScan(fractals, i, start, ss) ==
    IF i >= Len(fractals) THEN ss
    ELSE IF start = None
         THEN StrokeScan(fractals, i + 1, Some(At(fractals, i)), ss)
         ELSE LET st == StrokeStep(start[1], At(fractals, i), ss)
              IN StrokeScan(fractals, i + 1, Some(st[1]), st[2])

\* [f for f in fractals if f['type'] == t]
OfKind(fractals, t) == SelectSeq(fractals, LAMBDA f : f.type = t)

\* the returned triple, as a record
find_strokes(df) ==
    IF df = <<>> \/ Len(df) < 5
    THEN [strokes |-> <<>>, ding_count |-> 0, di_count |-> 0]
    ELSE LET fractals == FractalScan(df, 2, <<>>)
             ding == Len(OfKind(fractals, "top"))
             di == Len(OfKind(fractals, "bottom"))
         IN IF Len(fractals) < 2
            THEN [strokes |-> <<>>, ding_count |-> ding, di_count |-> di]
            ELSE [strokes |-> StrokeScan(fractals, 0, None, <<>>),
                  ding_count |-> ding, di_count |-> di]

(***************************************************************************)
(* calculate_zhongshu: the 0.40 and 0.60 quantiles of the bar midpoints    *)
(* (pandas' default, linear interpolation between order statistics).       *)
(* Returned times 10.                                                      *)
(***************************************************************************)
\* the k-th smallest (0-based) element of a non-empty sequence of integers
KthSmallest(vals, k) ==
    CHOOSE v \in {vals[i] : i \in 1..Len(vals)} :
        /\ Cardinality({i \in 1..Len(vals) : vals[i] < v}) <= k
        /\ k < Cardinality({i \in 1..Len(vals) : vals[i] <= v})

\* a mutant of Quantile10: it interpolates in the series as given, unsorted
Quantile10Unsorted(mid2, q5) ==
    LET pos5 == (Len(mid2) - 1) * q5
        lo == pos5 \div 5
        r == pos5 % 5
        slo == At(mid2, lo)
        shi == IF r = 0 THEN slo ELSE At(mid2, lo + 1)
    IN 5 * slo + r * (shi - slo)

\* Series.quantile(q5 / 5) of the series whose doubled values are mid2; times 10
Quantile10(mid2, q5) ==
    LET pos5 == (Len(mid2) - 1) * q5
        lo == pos5 \div 5
        r == pos5 % 5
        slo == KthSmallest(mid2, lo)
        shi == IF r = 0 THEN slo ELSE KthSmallest(mid2, lo + 1)
    IN 5 * slo + r * (shi - slo)

calculate_zhongshu(df) ==
    LET mid2 == [i \in 1..Len(df) |-> df[i].high + df[i].low]
    IN [low |-> Quantile10(mid2, 2), high |-> Quantile10(mid2, 3)]

(***************************************************************************)
(* check_divergence.  zs is the band times 10.                             *)
(***************************************************************************)
NoDivergence == [has_divergence |-> FALSE, divergence_type |-> "None"]

\* a mutant of BottomDivergenceCond: a drop of exactly 0.8 times the prior
\* drop passes
BottomDivergenceCondInclusive(df, ss, zs) ==
    LET down_strokes == OfType(ss, "down") IN
    /\ Len(down_strokes) >= 2
    /\ LET last_down == FromEnd(down_strokes, 1)
           prev_down == FromEnd(down_strokes, 2)
           price_new_low == last_down.end < prev_down.end
           current_price_drop == Abs(last_down.end - last_down.start)
           prev_price_drop == Abs(prev_down.end - prev_down.start)
       IN /\ price_new_low
          /\ 10 * current_price_drop >= 8 * prev_price_drop
          /\ 10 * FromEnd(df, 1).close < zs.low

BottomDivergenceCond(df, ss, zs) ==
    LET down_strokes == OfType(ss, "down") IN
    /\ Len(down_strokes) >= 2
    /\ LET last_down == FromEnd(down_strokes, 1)
           prev_down == FromEnd(down_strokes, 2)
           price_new_low == last_down.end < prev_down.end
           current_price_drop == Abs(last_down.end - last_down.start)
           prev_price_drop == Abs(prev_down.end - prev_down.start)
       IN /\ price_new_low
          /\ 10 * current_price_drop > 8 * prev_price_drop
          /\ 10 * FromEnd(df, 1).close < zs.low

\* a mutant of TopDivergenceCond: the close is not compared with the band
TopDivergenceCondAnywhere(df, ss, zs) ==
    LET up_strokes == OfType(ss, "up") IN
    /\ Len(up_strokes) >= 2
    /\ LET last_up == FromEnd(up_strokes, 1)
           prev_up == FromEnd(up_strokes, 2)
           price_new_high == last_up.end > prev_up.end
           current_price_rise == last_up.end - last_up.start
           prev_price_rise == prev_up.end - prev_up.start
       IN /\ price_new_high
          /\ 10 * current_price_rise < 12 * prev_price_rise

TopDivergenceCond(df, ss, zs) ==
    LET up_strokes == OfType(ss, "up") IN
    /\ Len(up_strokes) >= 2
    /\ LET last_up == FromEnd(up_strokes, 1)
           prev_up == FromEnd(up_strokes, 2)
           price_new_high == last_up.end > prev_up.end
           current_price_rise == last_up.end - last_up.start
           prev_price_rise == prev_up.end - prev_up.start
       IN /\ price_new_high
          /\ 10 * current_price_rise < 12 * prev_price_rise
          /\ 10 * FromEnd(df, 1).close > zs.high

check_divergence(df, ss, zs) ==
    IF Len(ss) < 2 THEN NoDivergence
    ELSE LET r1 == IF BottomDivergenceCond(df, ss, zs)
                   THEN [has_divergence |-> TRUE, divergence_type |-> "bottom"]
                   ELSE NoDivergence
         IN IF TopDivergenceCond(df, ss, zs)
            THEN [has_divergence |-> TRUE, divergence_type |-> "top"]
            ELSE r1

(***************************************************************************)
(* check_sell_signals.  recent_strokes = strokes[-3:]; the third-sell test *)
(* reads its three entries, the second-sell test its entries 0 and 1.      *)
(***************************************************************************)
NoSellSignal == [has_sell_signal |-> FALSE, sell_type |-> "None", explanation |-> ""]

\* mutant: the rebound is held against the band's high
ThirdSellCondBandHigh(df, recent_strokes, zs) ==
    /\ recent_strokes[1].type = "down"
    /\ recent_strokes[2].type = "up"
    /\ recent_strokes[3].type = "down"
    /\ LET rebound_high == recent_strokes[2].end
           current_price == FromEnd(df, 1).close
       IN 10 * rebound_high < zs.high /\ current_price < rebound_high

ThirdSellCond(df, recent_strokes, zs) ==
    /\ recent_strokes[1].type = "down"
    /\ recent_strokes[2].type = "up"
    /\ recent_strokes[3].type = "down"
    /\ LET rebound_high == recent_strokes[2].end
           current_price == FromEnd(df, 1).close
       IN 10 * rebound_high < zs.low /\ current_price < rebound_high

SecondSellCond(df, recent_strokes, zs) ==
    /\ recent_strokes[1].type = "up"
    /\ recent_strokes[2].type = "down"
    /\ LET up_high == recent_strokes[1].end
           down_low == recent_strokes[2].end
           current_price == FromEnd(df, 1).close
       IN /\ 10 * up_high > zs.high
          /\ 10 * down_low < zs.high
          /\ 10 * down_low > zs.low
          /\ 10 * current_price < zs.high

check_sell_signals(df, ss, zs) ==
    IF Len(ss) < 3 THEN NoSellSignal
    ELSE LET recent_strokes == SubSeq(ss, Len(ss) - 2, Len(ss))
             r1 == IF ThirdSellCond(df, recent_strokes, zs)
                   THEN [has_sell_signal |-> TRUE, sell_type |-> "third_sell",
                         explanation |-> "left the band downwards, rebound stayed below it"]
                   ELSE NoSellSignal
         IN IF SecondSellCond(df, recent_strokes, zs)
            THEN [has_sell_signal |-> TRUE, sell_type |-> "second_sell",
                  explanation |-> "pulled back into the band after a breakout"]
            ELSE r1

(***************************************************************************)
(* analyze_stock                                                           *)
(***************************************************************************)
\* "if df is None or len(df) < 20"
MinBars == 20

\* df.sort_values('trade_date').reset_index(drop=True): ascending by date (trade
\* dates are distinct), by insertion
RECURSIVE InsertByDate(_, _)
InsertByDate(sorted, b) ==
    IF sorted = <<>> THEN <<b>>
    ELSE IF b.date < Head(sorted).date THEN <<b>> \o sorted
    ELSE <<Head(sorted)>> \o InsertByDate(Tail(sorted), b)

RECURSIVE SortByDateFrom(_, _, _)
SortByDateFrom(df, i, sorted) ==
    IF i > Len(df) THEN sorted
    ELSE SortByDateFrom(df, i + 1, InsertByDate(sorted, df[i]))

SortByDate(df) == SortByDateFrom(df, 1, <<>>)

\* df.tail(n): the last n rows; for a negative n, all rows but the first -n
tail(df, n) ==
    LET keep == IF n >= 0 THEN Min2(n, Len(df)) ELSE Max2(Len(df) + n, 0)
    IN SubSeq(df, Len(df) - keep + 1, Len(df))

\* df['high'].max() and df['low'].min()
MaxHigh(df) == CHOOSE h \in {df[i].high : i \in 1..Len(df)} :
                   \A i \in 1..Len(df) : df[i].high <= h
MinLow(df) == CHOOSE l \in {df[i].low : i \in 1..Len(df)} :
                  \A i \in 1..Len(df) : df[i].low >= l

\* (value - current_price) / current_price * 100, value given times 1000
Pct(value1000, current_price) ==
    [num |-> (value1000 - current_price * 1000) * 100, den |-> current_price * 1000]
PctBelow(pct, n) == pct.num < n * pct.den

\* a mutant of Defaults: the initial label is the word of the initial action
DefaultsHoldLabel ==
    [signal |-> "hold", action |-> "hold",
     entry_price |-> None, stop_loss |-> None, target_price |-> None,
     stop_loss_pct |-> None, target_pct |-> None,
     risk_level |-> "medium", suggestion |-> "",
     divergence_info |-> "", sell_signal_info |-> ""]

\* mutant: the initial action is the base rule's "watch"
DefaultsWatch ==
    [signal |-> "none", action |-> "watch",
     entry_price |-> None, stop_loss |-> None, target_price |-> None,
     stop_loss_pct |-> None, target_pct |-> None,
     risk_level |-> "medium", suggestion |-> "",
     divergence_info |-> "", sell_signal_info |-> ""]

\* the values the signal block starts from (lines 714-724)
Defaults ==
    [signal |-> "none", action |-> "hold",
     entry_price |-> None, stop_loss |-> None, target_price |-> None,
     stop_loss_pct |-> None, target_pct |-> None,
     risk_level |-> "medium", suggestion |-> "",
     divergence_info |-> "", sell_signal_info |-> ""]

\* branch 1: a sell signal (lines 729-749)
SellBranch(current_price, min_price, ss, sell) ==
    LET recent_up == OfType(ss, "up")
        stop_loss == IF recent_up # <<>> THEN FromEnd(recent_up, 1).end * 1020
                     ELSE current_price * 1050
        target_price == min_price * 950
    IN [Defaults EXCEPT
            !.signal = sell.sell_type,
            !.action = "sell",
            !.sell_signal_info = sell.explanation,
            !.entry_price = Some(current_price * 1000),
            !.stop_loss = Some(stop_loss),
            !.stop_loss_pct = Some(Pct(stop_loss, current_price)),
            !.target_price = Some(target_price),
            !.target_pct = Some(Pct(target_price, current_price)),
            !.risk_level = "medium",
            !.suggestion = sell.explanation]

\* mutant: the divergence test is left out
BreakoutSignalPlain(top) == "breakout"

\* "三买+背驰" under top divergence, else "三买" (lines 756-763)
BreakoutSignal(top) == IF top THEN "breakout+divergence" ELSE "breakout"

\* mutant: the risk is not adjusted to the target room
BreakoutRiskUnadjusted(top, target_pct) == IF top THEN "high" ELSE "medium"

\* risk_level: "高" under top divergence, else "中"; then "高" if target_pct < 3
\* (lines 761, 766, 779-780)
BreakoutRisk(top, target_pct) ==
    IF top \/ PctBelow(target_pct, 3) THEN "high" ELSE "medium"

\* mutant: the lower of the two stops
BreakoutStopMin(zs, current_price) == Min2(zs.high * 98, current_price * 950)

\* stop_loss = max(zhongshu['high'] * 0.98, current_price * 0.95), times 1000
BreakoutStop(zs, current_price) == Max2(zs.high * 98, current_price * 950)

\* branch 2: above the band (lines 752-785)
BreakoutBranch(current_price, max_price, ss, zs, div) ==
    LET recent_up == OfType(ss, "up") IN
    IF recent_up # <<>> /\ 10 * FromEnd(recent_up, 1).end > zs.high
    THEN LET top == div.has_divergence /\ div.divergence_type = "top"
             stop_loss == BreakoutStop(zs, current_price)
             target_price == max_price * 1000
             target_pct == Pct(target_price, current_price)
         IN [Defaults EXCEPT
                !.signal = BreakoutSignal(top),
                !.action = IF top THEN "reduce" ELSE "buy",
                !.divergence_info = IF top THEN "top divergence" ELSE "",
                !.entry_price = Some(current_price * 1000),
                !.stop_loss = Some(stop_loss),
                !.stop_loss_pct = Some(Pct(stop_loss, current_price)),
                !.target_price = Some(target_price),
                !.target_pct = Some(target_pct),
                !.risk_level = BreakoutRisk(top, target_pct),
                !.suggestion =
                    IF top THEN "breakout with top divergence: reduce, do not add"
                    ELSE IF PctBelow(target_pct, 3)
                    THEN "breakout with little room: chase with care"
                    ELSE IF PctBelow(target_pct, 8)
                    THEN "valid breakout: take part moderately"
                    ELSE "strong breakout, ample room"]
    ELSE Defaults

\* mutant: any rebound counts
ReboundOverZero(current_price, recent_low) == current_price - recent_low > 0

\* rebound_pct = (current_price - recent_low) / recent_low * 100; rebound_pct > 1
\* (lines 792, 797), for recent_low > 0
ReboundPctOver1(current_price, recent_low) ==
    (current_price - recent_low) * 100 > recent_low

\* branch 3: below the band (lines 788-821)
BaseBranch(current_price, ss, zs, div) ==
    LET recent_down == OfType(ss, "down") IN
    IF recent_down # <<>>
    THEN LET recent_low == FromEnd(recent_down, 1).end
             rebound_over_1 == ReboundPctOver1(current_price, recent_low)
             has_divergence == div.has_divergence /\ div.divergence_type = "bottom"
             stop_loss == recent_low * 970
             target_price == zs.low * 100
             target_pct == Pct(target_price, current_price)
         IN IF rebound_over_1 \/ has_divergence
            THEN [Defaults EXCEPT
                    !.signal = IF has_divergence THEN "base+divergence" ELSE "base",
                    !.action = IF has_divergence THEN "buy" ELSE "watch",
                    !.divergence_info =
                        IF has_divergence THEN "bottom divergence" ELSE "",
                    !.risk_level = IF has_divergence THEN "medium" ELSE "high",
                    !.entry_price = Some(current_price * 1000),
                    !.stop_loss = Some(stop_loss),
                    !.stop_loss_pct = Some(Pct(stop_loss, current_price)),
                    !.target_price = Some(target_price),
                    !.target_pct = Some(target_pct),
                    !.suggestion =
                        IF has_divergence
                        THEN "bottom divergence confirmed: rebound likely"
                        ELSE IF PctBelow(target_pct, 3)
                        THEN "little rebound room: wait"
                        ELSE "oversold rebound: probe with a small position"]
            ELSE Defaults
    ELSE Defaults

\* mutant: the buy regions are read before the sell signal
ClassifyBuyFirst(current_price, max_price, min_price, ss, zs, div, sell) ==
    LET buy == IF 10 * current_price > zs.high /\ ss # <<>>
               THEN BreakoutBranch(current_price, max_price, ss, zs, div)
               ELSE IF 10 * current_price < zs.low /\ ss # <<>>
               THEN BaseBranch(current_price, ss, zs, div)
               ELSE Defaults
    IN IF buy.signal # "none" THEN buy
       ELSE IF sell.has_sell_signal
       THEN SellBranch(current_price, min_price, ss, sell)
       ELSE Defaults

\* the if / elif / elif chain of lines 729, 752, 788
Classify(current_price, max_price, min_price, ss, zs, div, sell) ==
    IF sell.has_sell_signal
    THEN SellBranch(current_price, min_price, ss, sell)
    ELSE IF 10 * current_price > zs.high /\ ss # <<>>
    THEN BreakoutBranch(current_price, max_price, ss, zs, div)
    ELSE IF 10 * current_price < zs.low /\ ss # <<>>
    THEN BaseBranch(current_price, ss, zs, div)
    ELSE Defaults

\* what the body leaves when it returns None before the pipeline ran
NoLocals ==
    [strokes |-> <<>>, zhongshu |-> None, divergence |-> None,
     sell_signal |-> None, result |-> None]

\* The whole call: fetched is pro.daily's outcome ([outcome |-> "raise"], a None
\* frame [outcome |-> "None"], or [outcome |-> "ok", bars |-> ...]), n the lookback
\* ("days", a variable of this module).  Every early
\* return and the "except Exception" handler end in result None.
analyze_stock(fetched, n) ==
    IF fetched.outcome = "raise" THEN NoLocals
    ELSE IF fetched.outcome = "None" THEN NoLocals
    ELSE IF Len(fetched.bars) < MinBars THEN NoLocals
    ELSE LET df == tail(SortByDate(fetched.bars), n) IN
         \* df.iloc[-1] of an empty frame raises IndexError
         IF df = <<>> THEN NoLocals
         ELSE LET current_price == FromEnd(df, 1).close
                  max_price == MaxHigh(df)
                  min_price == MinLow(df)
                  fs == find_strokes(handle_inclusion(df))
                  ss == fs.strokes
                  zs == calculate_zhongshu(df)
                  div == check_divergence(df, ss, zs)
                  sell == check_sell_signals(df, ss, zs)
                  c == Classify(current_price, max_price, min_price, ss, zs, div, sell)
              IN [strokes |-> ss, zhongshu |-> Some(zs), divergence |-> Some(div),
                  sell_signal |-> Some(sell),
                  result |-> Some([price |-> current_price,
                                   max_price |-> max_price, min_price |-> min_price,
                                   ding_count |-> fs.ding_count,
                                   di_count |-> fs.di_count,
                                   stroke_count |-> Len(ss),
                                   zhongshu_low |-> zs.low, zhongshu_high |-> zs.high,
                                   signal |-> c.signal, action |-> c.action,
                                   entry_price |-> c.entry_price,
                                   stop_loss |-> c.stop_loss,
                                   target_price |-> c.target_price,
                                   stop_loss_pct |-> c.stop_loss_pct,
                                   target_pct |-> c.target_pct,
                                   risk_level |-> c.risk_level,
                                   suggestion |-> c.suggestion,
                                   divergence_info |-> c.divergence_info,
                                   sell_signal_info |-> c.sell_signal_info])]

(***************************************************************************)
(* The inputs.  pro.daily returns daily bars, the newest first.  A bar     *)
(* series here is a padding followed by a zigzag through five turning      *)
(* levels, with one bar halfway between two turning levels (rounded down,  *)
(* so that neighbouring levels give neighbouring fractals).  Every bar is  *)
(* BarWidth ticks high, and prices are PriceBase ticks plus the level, so  *)
(* that one tick is about one percent.                                     *)
(***************************************************************************)
MaxLevel == 4
PadLen == 11
BarWidth == 1
PriceBase == 100

\* analyze_stock(symbol, name, days=90)
DefaultDays == 90

Levels == 1..MaxLevel
TurnLevels == Levels \X Levels \X Levels \X Levels \X Levels

MkBar(date, level, closeHigh) ==
    [date |-> date,
     open |-> PriceBase + level,
     low |-> PriceBase + level,
     high |-> PriceBase + level + BarWidth,
     close |-> IF closeHigh THEN PriceBase + level + BarWidth ELSE PriceBase + level]

\* the levels of the zigzag through the turning levels T
ZigLevels(T) ==
    [i \in 1..(2 * Len(T) - 1) |->
        IF i % 2 = 1 THEN T[(i + 1) \div 2]
        ELSE (T[i \div 2] + T[i \div 2 + 1]) \div 2]

\* The paddings: nFirst bars at level first, then bars at level rest.
\*   a spike and a long floor; a long floor and a ledge; a flat floor;
\*   a shelf under a plateau
PadShapes ==
    {[first |-> 5, nFirst |-> 1, rest |-> 1],
     [first |-> 1, nFirst |-> 6, rest |-> 0],
     [first |-> 1, nFirst |-> 1, rest |-> 1],
     [first |-> 4, nFirst |-> 6, rest |-> 5]}

\* padLen padding bars of shape pad, then the zigzag; the last bar closes at its
\* high or at its low, the others at their low
Series(padLen, pad, T, closeHigh) ==
    LET lv == [i \in 1..padLen |-> IF i <= pad.nFirst THEN pad.first ELSE pad.rest]
              \o ZigLevels(T)
    IN [i \in 1..Len(lv) |-> MkBar(i, lv[i], closeHigh /\ i = Len(lv))]

Reverse(s) == [i \in 1..Len(s) |-> s[Len(s) - i + 1]]

Fetched(bars) == [outcome |-> "ok", bars |-> Reverse(bars)]

\* a scan from the app: a full series, the default lookback
ScanInputs ==
    {[feed |-> Fetched(Series(PadLen, pad, T, ch)), days |-> DefaultDays] :
        pad \in PadShapes, T \in TurnLevels, ch \in BOOLEAN}

\* calls at the edge of the guard: a failed or empty retrieval, a series one bar
\* short, and lookbacks shorter than the series
EdgeTurns == {<<a, b, a, b, a>> : a \in Levels, b \in Levels}
EdgeDays == {0, 15, 30}
EdgeInputs ==
    {[feed |-> f, days |-> d] :
        f \in {[outcome |-> "raise"], [outcome |-> "None"], Fetched(<<>>)}
              \cup {Fetched(Series(p, pad, T, ch)) :
                        p \in {PadLen - 1, PadLen}, pad \in PadShapes,
                        T \in EdgeTurns, ch \in BOOLEAN},
        d \in EdgeDays}

\* a series without any price variation: every bar opens, peaks, bottoms and
\* closes at one price
FlatSeries(n, level) ==
    [i \in 1..n |->
        [date |-> i, open |-> PriceBase + level, low |-> PriceBase + level,
         high |-> PriceBase + level, close |-> PriceBase + level]]

\* flat series of the least length the guard lets through, and one bar longer
FlatInputs ==
    {[feed |-> Fetched(FlatSeries(n, l)), days |-> d] :
        n \in {MinBars, MinBars + 1},
        l \in Levels, d \in EdgeDays \cup {DefaultDays}}

\* a series that ends in a slide: the zigzag of a scan series under the shelf
\* padding, then a fall to a level as far under the base as the last turning
\* level may be over it, without a fractal on the way
SlidePad == [first |-> 4, nFirst |-> 6, rest |-> 5]
SlideInputs ==
    {[feed |-> Fetched(Series(PadLen, SlidePad, T \o <<-d>>, ch)),
      days |-> DefaultDays] :
        T \in TurnLevels, d \in Levels, ch \in BOOLEAN}

\* no scan is running
NoScan ==
    /\ market = <<>>
    /\ stock_list = <<>>
    /\ scan_pos = 0
    /\ results = <<>>

\* no stage is run on its own
NoStage ==
    /\ frame = <<>>
    /\ df_processed = <<>>
    /\ fractal_list = <<>>
    /\ fractal_pos = 0
    /\ current_stroke_start = None
    /\ ding_count = 0
    /\ di_count = 0

\* no file is written
NoFiles ==
    /\ watchlist = <<>>
    /\ history = <<>>
    /\ called = None
    /\ now = 0

Init ==
    /\ \E in \in ScanInputs \cup EdgeInputs \cup FlatInputs \cup SlideInputs :
        feed = in.feed /\ days = in.days
    /\ pc = "call"
    /\ strokes = <<>>
    /\ zhongshu = None
    /\ divergence = None
    /\ sell_signal = None
    /\ result = None
    /\ NoScan
    /\ NoStage
    /\ NoFiles

\* one call of analyze_stock, from the retrieval to the return
AnalyzeStock ==
    /\ pc = "call"
    /\ LET r == analyze_stock(feed, days) IN
        /\ strokes' = r.strokes
        /\ zhongshu' = r.zhongshu
        /\ divergence' = r.divergence
        /\ sell_signal' = r.sell_signal
        /\ result' = r.result
    /\ pc' = "done"
    /\ UNCHANGED <<feed, days, scanVars, stageVars, fileVars>>

Next == AnalyzeStock

Spec == Init /\ [][Next]_vars

(***************************************************************************)
(* The scan of main: analyze_stock for every symbol of stock_list, in      *)
(* order; a result that is not None is appended to results.                *)
(***************************************************************************)
(* The two files.  A file holds what json.dump wrote, and json.load gives  *)
(* it back: lists of records of strings, numbers and lists.  A missing     *)
(* file reads as the empty list.  A timestamp is the clock's reading.      *)
(***************************************************************************)
\* history[-20:]
HistoryCap == 20

\* a mutant of LastOf: the first n elements, s[:n]
FirstOf(s, n) == IF Len(s) <= n THEN s ELSE SubSeq(s, 1, n)

\* s[-n:] for n > 0
LastOf(s, n) == IF Len(s) <= n THEN s ELSE SubSeq(s, Len(s) - n + 1, Len(s))

\* the new content of HISTORY_FILE
save_analysis_history(stored, rs, timestamp) ==
    LastOf(Append(stored, [timestamp |-> timestamp, results |-> rs]), HistoryCap)

\* any(w['code'] == code for w in watchlist)
HasCode(stored, code) == \E k \in 1..Len(stored) : stored[k].code = code

\* a mutant of add_to_watchlist: the entry is appended whether or not the code
\* is there
add_to_watchlist_unchecked(stored, code, name, timestamp) ==
    [watchlist |-> Append(stored, [code |-> code, name |-> name,
                                   added_at |-> timestamp]),
     returned |-> TRUE]

\* the new content of WATCHLIST_FILE and the returned value
add_to_watchlist(stored, code, name, timestamp) ==
    IF ~HasCode(stored, code)
    THEN [watchlist |-> Append(stored, [code |-> code, name |-> name,
                                        added_at |-> timestamp]),
          returned |-> TRUE]
    ELSE [watchlist |-> stored, returned |-> FALSE]

\* the new content of WATCHLIST_FILE
remove_from_watchlist(stored, code) == SelectSeq(stored, LAMBDA w : w.code # code)

(***************************************************************************)
MaxStocks == 3

Symbols == {"600000", "000001", "300750"}

\* what pro.daily may give for a symbol: it raises, it returns 19 bars, it
\* returns a series that ends in a second sell, or one without any fractal
ScanFeeds ==
    {[outcome |-> "raise"],
     Fetched(Series(PadLen - 1, [first |-> 1, nFirst |-> 1, rest |-> 1],
                    <<1, 2, 1, 2, 1>>, FALSE)),
     Fetched(Series(PadLen, [first |-> 5, nFirst |-> 1, rest |-> 1],
                    <<2, 4, 2, 4, 1>>, FALSE)),
     Fetched(Series(PadLen, [first |-> 1, nFirst |-> 1, rest |-> 1],
                    <<1, 1, 1, 1, 4>>, TRUE))}

StockLists == UNION {[1..n -> Symbols] : n \in 0..MaxStocks}

\* the returned dict carries 'code': symbol
WithCode(symbol, r) == IF r = None THEN None ELSE Some([code |-> symbol] @@ r[1])

\* a mutant of Collect: the result is appended without the "if result"
CollectUnchecked(rs, r) == Append(rs, IF r = None THEN None ELSE r[1])

\* if result: results.append(result)
Collect(rs, r) == IF r # None THEN Append(rs, r[1]) ELSE rs

ScanInit ==
    /\ market \in [Symbols -> ScanFeeds]
    /\ stock_list \in StockLists
    /\ scan_pos = 0
    /\ results = <<>>
    /\ feed = [outcome |-> "None"]
    /\ days = DefaultDays
    /\ pc = "scan"
    /\ strokes = <<>>
    /\ zhongshu = None
    /\ divergence = None
    /\ sell_signal = None
    /\ result = None
    /\ NoStage
    /\ NoFiles

\* "if not stock_list: st.error(...); return"
ScanRefuse ==
    /\ pc = "scan"
    /\ stock_list = <<>>
    /\ pc' = "refused"
    /\ UNCHANGED <<callVars, scanVars, stageVars, fileVars>>

\* one iteration of "for i, (symbol, name) in enumerate(stock_list)"
ScanStep ==
    /\ pc = "scan"
    /\ scan_pos < Len(stock_list)
    /\ LET symbol == At(stock_list, scan_pos)
           r == analyze_stock(market[symbol], days)
       IN /\ feed' = market[symbol]
          /\ strokes' = r.strokes
          /\ zhongshu' = r.zhongshu
          /\ divergence' = r.divergence
          /\ sell_signal' = r.sell_signal
          /\ result' = WithCode(symbol, r.result)
          /\ results' = Collect(results, WithCode(symbol, r.result))
    /\ scan_pos' = scan_pos + 1
    /\ UNCHANGED <<pc, days, market, stock_list, stageVars, fileVars>>

\* the loop is over: st.session_state['results'] = results, then
\* save_analysis_history(results), at a later reading of the clock
ScanFinish ==
    /\ pc = "scan"
    /\ stock_list # <<>>
    /\ scan_pos = Len(stock_list)
    /\ pc' = "scanned"
    /\ now' = now + 1
    /\ history' = save_analysis_history(history, results, now')
    /\ UNCHANGED <<callVars, scanVars, stageVars, watchlist, called>>

ScanNext == ScanRefuse \/ ScanStep \/ ScanFinish

ScanSpec == ScanInit /\ [][ScanNext]_vars

(***************************************************************************)
(* The stages that take a bar window, each on its own, over every short    *)
(* window of bars whose low and high are ticks of 1..MaxTick:              *)
(* handle_inclusion and calculate_zhongshu.                                *)
(***************************************************************************)
MaxTick == 3
MaxBars == 3

Ranges == {r \in [low : 1..MaxTick, high : 1..MaxTick] : r.low <= r.high}

\* a rising bar (it opens at its low and closes at its high) over each range
Frames ==
    {[i \in 1..Len(f) |->
        [date |-> i, open |-> f[i].low, low |-> f[i].low,
         high |-> f[i].high, close |-> f[i].high]] :
     f \in UNION {[1..n -> Ranges] : n \in 0..MaxBars}}

BarsInit ==
    /\ frame \in Frames
    /\ pc = "stage"
    /\ df_processed = <<>>
    /\ fractal_list = <<>>
    /\ fractal_pos = 0
    /\ current_stroke_start = None
    /\ ding_count = 0
    /\ di_count = 0
    /\ feed = [outcome |-> "None"]
    /\ days = DefaultDays
    /\ strokes = <<>>
    /\ zhongshu = None
    /\ divergence = None
    /\ sell_signal = None
    /\ result = None
    /\ NoScan
    /\ NoFiles

\* df_processed = handle_inclusion(df)
HandleInclusion ==
    /\ pc = "stage"
    /\ df_processed' = handle_inclusion(frame)
    /\ pc' = "merged"
    /\ UNCHANGED <<callVars, scanVars, fileVars, frame, fractal_list, fractal_pos,
                   current_stroke_start, ding_count, di_count>>

\* zhongshu = calculate_zhongshu(df); analyze_stock gets there with a window
\* that is not empty (df.iloc[-1] has raised otherwise)
CalculateZhongshu ==
    /\ pc = "stage"
    /\ frame # <<>>
    /\ zhongshu' = Some(calculate_zhongshu(frame))
    /\ pc' = "band"
    /\ UNCHANGED <<feed, days, strokes, divergence, sell_signal, result,
                   scanVars, stageVars, fileVars>>

BarsNext == HandleInclusion \/ CalculateZhongshu

BarsSpec == BarsInit /\ [][BarsNext]_vars

(***************************************************************************)
(* find_strokes, one loop iteration at a time, on the merged bars of every *)
(* series of the zigzag family: the fractals are found, then the loop over *)
(* the fractals builds the strokes.                                        *)
(***************************************************************************)
\* Two peaks of heights x and y over a floor, the bar between them lying inside
\* the bar that follows it: handle_inclusion merges that pair into a bar that
\* contains the floor bar before it, so no bottom is found between the peaks.
LedgeRanges(x, y) ==
    <<<<1, 1>>, <<2, x>>, <<1, 1>>, <<2, 2>>, <<1, 2>>, <<2, y>>, <<1, 1>>>>

\* the bars over the ranges, or over their mirror image (two troughs under a
\* ceiling); every bar closes at its low
LedgeSeries(x, y, mirrored) ==
    LET rs == LedgeRanges(x, y)
        top == MaxLevel + 2
    IN [i \in 1..Len(rs) |->
          LET lo == IF mirrored THEN top - rs[i][2] ELSE rs[i][1]
              hi == IF mirrored THEN top - rs[i][1] ELSE rs[i][2]
          IN [date |-> i, open |-> PriceBase + lo, low |-> PriceBase + lo,
              high |-> PriceBase + hi, close |-> PriceBase + lo]]

LedgeFrames ==
    {LedgeSeries(x, y, m) : x \in 2..MaxLevel, y \in 3..MaxLevel, m \in BOOLEAN}

StrokeFrames ==
    {Series(PadLen, pad, T, FALSE) : pad \in PadShapes, T \in TurnLevels}
    \cup LedgeFrames

StrokeInit ==
    /\ frame \in StrokeFrames
    /\ df_processed = handle_inclusion(frame)
    /\ fractal_list = <<>>
    /\ fractal_pos = 0
    /\ current_stroke_start = None
    /\ ding_count = 0
    /\ di_count = 0
    /\ strokes = <<>>
    /\ pc = "find_strokes"
    /\ feed = [outcome |-> "None"]
    /\ days = DefaultDays
    /\ zhongshu = None
    /\ divergence = None
    /\ sell_signal = None
    /\ result = None
    /\ NoScan
    /\ NoFiles

\* the guard on the length, the loop that collects the fractals and the guard on
\* their number
FindFractals ==
    /\ pc = "find_strokes"
    /\ IF df_processed = <<>> \/ Len(df_processed) < 5
       THEN /\ fractal_list' = <<>>
            /\ ding_count' = 0
            /\ di_count' = 0
            /\ pc' = "returned"
       ELSE /\ fractal_list' = FractalScan(df_processed, 2, <<>>)
            /\ ding_count' = Len(OfKind(fractal_list', "top"))
            /\ di_count' = Len(OfKind(fractal_list', "bottom"))
            /\ pc' = IF Len(fractal_list') < 2 THEN "returned" ELSE "scan"
    /\ UNCHANGED <<callVars, scanVars, fileVars, frame, df_processed, fractal_pos,
                   current_stroke_start>>

\* one iteration of "for i in range(len(fractals))"
ScanFractal ==
    /\ pc = "scan"
    /\ fractal_pos < Len(fractal_list)
    /\ LET current_fractal == At(fractal_list, fractal_pos) IN
        IF current_stroke_start = None
        THEN /\ current_stroke_start' = Some(current_fractal)
             /\ strokes' = strokes
        ELSE LET st == StrokeStep(current_stroke_start[1], current_fractal, strokes)
             IN /\ current_stroke_start' = Some(st[1])
                /\ strokes' = st[2]
    /\ fractal_pos' = fractal_pos + 1
    /\ UNCHANGED <<pc, feed, days, zhongshu, divergence, sell_signal, result,
                   scanVars, fileVars, frame, df_processed, fractal_list,
                   ding_count, di_count>>

\* return strokes, ding_count, di_count
ReturnStrokes ==
    /\ pc = "scan"
    /\ fractal_pos = Len(fractal_list)
    /\ pc' = "returned"
    /\ UNCHANGED <<callVars, scanVars, stageVars, fileVars>>

StrokeNext == FindFractals \/ ScanFractal \/ ReturnStrokes

StrokeSpec == StrokeInit /\ [][StrokeNext]_vars

(***************************************************************************)
(* check_divergence on its own: up to two down-strokes and up to two       *)
(* up-strokes between a few prices, a band with low <= high and a close    *)
(* under, inside or over it.  A down-stroke ends under its start and an    *)
(* up-stroke over it, as find_strokes builds them.                         *)
(***************************************************************************)
StrokePrices == {1, 2, 5, 7}
BandEdges == {15, 45, 75}
ClosePrices == {1, 3, 8}

StrokesOfType(t) ==
    {[type |-> t, start |-> a, end |-> b] :
        <<a, b>> \in {q \in StrokePrices \X StrokePrices :
                        IF t = "down" THEN q[1] > q[2] ELSE q[1] < q[2]}}

StrokeListsOfType(t) == UNION {[1..n -> StrokesOfType(t)] : n \in 0..2}

DivInit ==
    /\ \E c \in ClosePrices :
        frame = <<[date |-> 1, open |-> c, low |-> c, high |-> c, close |-> c]>>
    /\ \E downs \in StrokeListsOfType("down"), ups \in StrokeListsOfType("up") :
        strokes = downs \o ups
    /\ \E lo \in BandEdges, hi \in BandEdges :
        lo <= hi /\ zhongshu = Some([low |-> lo, high |-> hi])
    /\ divergence = None
    /\ pc = "stage"
    /\ df_processed = <<>>
    /\ fractal_list = <<>>
    /\ fractal_pos = 0
    /\ current_stroke_start = None
    /\ ding_count = 0
    /\ di_count = 0
    /\ feed = [outcome |-> "None"]
    /\ days = DefaultDays
    /\ sell_signal = None
    /\ result = None
    /\ NoScan
    /\ NoFiles

\* divergence = check_divergence(df, strokes, zhongshu)
CheckDivergence ==
    /\ pc = "stage"
    /\ divergence' = Some(check_divergence(frame, strokes, zhongshu[1]))
    /\ pc' = "checked"
    /\ UNCHANGED <<feed, days, strokes, zhongshu, sell_signal, result,
                   scanVars, stageVars, fileVars>>

DivNext == CheckDivergence

DivSpec == DivInit /\ [][DivNext]_vars

(***************************************************************************)
(* The analysis history: scan after scan, each saving its results.  The    *)
(* clock reads one later at every save, so a record's timestamp is the     *)
(* number of the save that wrote it.                                       *)
(***************************************************************************)
MaxSaves == 22

\* what a scan may hand over: a result, reduced to its code, for each symbol
\* of a list of up to two
SavedResults ==
    {[k \in 1..Len(l) |-> [code |-> l[k]]] :
        l \in UNION {[1..n -> Symbols] : n \in 0..2}}

HistoryInit ==
    /\ results \in SavedResults
    /\ history = <<>>
    /\ now = 0
    /\ watchlist = <<>>
    /\ called = None
    /\ pc = "history"
    /\ market = <<>>
    /\ stock_list = <<>>
    /\ scan_pos = 0
    /\ feed = [outcome |-> "None"]
    /\ days = DefaultDays
    /\ strokes = <<>>
    /\ zhongshu = None
    /\ divergence = None
    /\ sell_signal = None
    /\ result = None
    /\ NoStage

\* save_analysis_history(results)
SaveAnalysisHistory ==
    /\ pc = "history"
    /\ now < MaxSaves
    /\ now' = now + 1
    /\ history' = save_analysis_history(history, results, now')
    /\ UNCHANGED <<pc, callVars, scanVars, stageVars, watchlist, called>>

HistoryNext == SaveAnalysisHistory

HistorySpec == HistoryInit /\ [][HistoryNext]_vars

(***************************************************************************)
(* The watchlist: add_to_watchlist and remove_from_watchlist, one call at  *)
(* a time, from a missing file, while the clock moves on.                  *)
(***************************************************************************)
MaxTime == 2

Names == {"SPDB", "PAB"}

WatchInit ==
    /\ watchlist = <<>>
    /\ called = None
    /\ now = 0
    /\ history = <<>>
    /\ pc = "watch"
    /\ feed = [outcome |-> "None"]
    /\ days = DefaultDays
    /\ strokes = <<>>
    /\ zhongshu = None
    /\ divergence = None
    /\ sell_signal = None
    /\ result = None
    /\ NoScan
    /\ NoStage

\* time passes
Tick ==
    /\ pc = "watch"
    /\ now < MaxTime
    /\ now' = now + 1
    /\ UNCHANGED <<pc, callVars, scanVars, stageVars, watchlist, history, called>>

\* add_to_watchlist(code, name)
AddToWatchlist ==
    /\ pc = "watch"
    /\ \E code \in Symbols, name \in Names :
        LET r == add_to_watchlist(watchlist, code, name, now) IN
        /\ watchlist' = r.watchlist
        /\ called' = Some([op |-> "add", code |-> code, name |-> name,
                           returned |-> Some(r.returned)])
    /\ UNCHANGED <<pc, callVars, scanVars, stageVars, history, now>>

\* remove_from_watchlist(code)
RemoveFromWatchlist ==
    /\ pc = "watch"
    /\ \E code \in Symbols :
        /\ watchlist' = remove_from_watchlist(watchlist, code)
        /\ called' = Some([op |-> "remove", code |-> code, name |-> "",
                           returned |-> None])
    /\ UNCHANGED <<pc, callVars, scanVars, stageVars, history, now>>

WatchNext == Tick \/ AddToWatchlist \/ RemoveFromWatchlist

WatchSpec == WatchInit /\ [][WatchNext]_vars

(***************************************************************************)
(* Vocabulary of the properties.  They read the state a finished call      *)
(* leaves: the locals strokes, zhongshu, divergence, sell_signal and the   *)
(* returned record.                                                        *)
(***************************************************************************)
Returned == pc = "done" /\ result # None
R == result[1]
ZS == zhongshu[1]

\* the bar window the call analyses: the sorted series cut to the lookback
Window == IF feed.outcome = "ok" THEN tail(SortByDate(feed.bars), days) ELSE <<>>
\* the current close, as the result reports it
Close == R.price

SellLabels == {"third_sell", "second_sell"}
BreakoutLabels == {"breakout", "breakout+divergence"}
BaseLabels == {"base", "base+divergence"}

SellPresent == sell_signal[1].has_sell_signal
TopDivergence ==
    divergence[1].has_divergence /\ divergence[1].divergence_type = "top"
BottomDivergence ==
    divergence[1].has_divergence /\ divergence[1].divergence_type = "bottom"

UpStrokes == OfType(strokes, "up")
DownStrokes == OfType(strokes, "down")
AboveBand == 10 * Close > ZS.high
BelowBand == 10 * Close < ZS.low
LastUpAboveBand == UpStrokes # <<>> /\ 10 * FromEnd(UpStrokes, 1).end > ZS.high
SomeUpAboveBand == \E i \in 1..Len(UpStrokes) : 10 * UpStrokes[i].end > ZS.high
\* reboundPct > 1
ReboundOver1 ==
    LET lastDown == FromEnd(DownStrokes, 1).end
    IN (Close - lastDown) * 100 > lastDown

\* the breakout rule and the base rule of the signal classifier
BreakoutRule == AboveBand /\ LastUpAboveBand
BaseRule == BelowBand /\ DownStrokes # <<>> /\ (ReboundOver1 \/ BottomDivergence)

NoPrices ==
    /\ R.entry_price = None /\ R.stop_loss = None /\ R.target_price = None
    /\ R.stop_loss_pct = None /\ R.target_pct = None

\* targetPct < 3, for a result that has one
TargetPctBelow3 == PctBelow(R.target_pct[1], 3)

(***************************************************************************)
(* C1.  The final signal follows the priority sell > breakout > base >     *)
(* none: a reported sell pattern gives its label wherever the close lies,  *)
(* the breakout rule is read only without a sell pattern, the base rule    *)
(* only when neither matched, and a buy label needs no sell pattern.       *)
(***************************************************************************)
C1_Priority ==
    Returned =>
        /\ SellPresent => R.signal = sell_signal[1].sell_type /\ R.signal \in SellLabels
        /\ (~SellPresent /\ BreakoutRule) => R.signal \in BreakoutLabels
        /\ (~SellPresent /\ ~BreakoutRule /\ BaseRule) => R.signal \in BaseLabels
        /\ (~SellPresent /\ ~BreakoutRule /\ ~BaseRule) => R.signal = "none"
        /\ R.signal \in BreakoutLabels \cup BaseLabels => ~SellPresent

\* a sell pattern is reported while the base rule matches too
C1_Witness == Returned /\ SellPresent /\ BaseRule /\ R.signal \in SellLabels

(***************************************************************************)
(* C2.  Second sell is reported exactly when the last two strokes are up   *)
(* then down, the up-stroke ends above the band, the down-stroke ends      *)
(* strictly inside it and the close is below the band's high.              *)
(***************************************************************************)
LastTwoUpDownPullback ==
    /\ Len(strokes) >= 2
    /\ FromEnd(strokes, 2).type = "up"
    /\ FromEnd(strokes, 1).type = "down"
    /\ 10 * FromEnd(strokes, 2).end > ZS.high
    /\ 10 * FromEnd(strokes, 1).end > ZS.low
    /\ 10 * FromEnd(strokes, 1).end < ZS.high
    /\ 10 * Close < ZS.high

C2_SecondSellIffLastTwo ==
    Returned => (R.signal = "second_sell" <=> LastTwoUpDownPullback)

(***************************************************************************)
(* C3.  A second-sell result has action reduce and no entry, stop or       *)
(* target price and no percentages.                                        *)
(***************************************************************************)
C3_SecondSellReduceNoPrices ==
    (Returned /\ R.signal = "second_sell") => (R.action = "reduce" /\ NoPrices)

(***************************************************************************)
(* C4.  Third sell is reported exactly when the last three of at least     *)
(* three strokes are down, up, down, the middle up-stroke ends below the   *)
(* band and the close is below that end; then the stop is the last         *)
(* up-stroke's end x 1.02 and the target the window's lowest low x 0.95.   *)
(***************************************************************************)
LastThreeDownUpDown ==
    /\ Len(strokes) >= 3
    /\ FromEnd(strokes, 3).type = "down"
    /\ FromEnd(strokes, 2).type = "up"
    /\ FromEnd(strokes, 1).type = "down"
    /\ 10 * FromEnd(strokes, 2).end < ZS.low
    /\ Close < FromEnd(strokes, 2).end

C4_ThirdSell ==
    Returned =>
        /\ R.signal = "third_sell" <=> LastThreeDownUpDown
        /\ R.signal = "third_sell" =>
              /\ R.stop_loss = Some(FromEnd(UpStrokes, 1).end * 1020)
              /\ R.target_price = Some(MinLow(Window) * 950)

C4_Witness == Returned /\ R.signal = "third_sell" /\ LastThreeDownUpDown

(***************************************************************************)
(* C5.  Without a sell pattern and with the close above the band: if the   *)
(* last up-stroke ends above the band the label is breakout+divergence     *)
(* (action reduce) under top divergence and breakout (action buy)          *)
(* otherwise; if no up-stroke ends above the band there is no breakout     *)
(* label.                                                                  *)
(***************************************************************************)
C5_Breakout ==
    (Returned /\ ~SellPresent /\ AboveBand) =>
        /\ (LastUpAboveBand /\ TopDivergence) =>
              (R.signal = "breakout+divergence" /\ R.action = "reduce")
        /\ (LastUpAboveBand /\ ~TopDivergence) =>
              (R.signal = "breakout" /\ R.action = "buy")
        /\ ~SomeUpAboveBand => R.signal \notin BreakoutLabels

C5_Witness ==
    Returned /\ ~SellPresent /\ AboveBand /\ LastUpAboveBand /\ TopDivergence
    /\ R.signal = "breakout+divergence"

(***************************************************************************)
(* C6.  As claimed: every breakout or breakout+divergence result has risk  *)
(* high if targetPct < 3 and medium otherwise.                             *)
(***************************************************************************)
C6_RiskByTargetPct ==
    (Returned /\ R.signal \in BreakoutLabels) =>
        R.risk_level = IF TargetPctBelow3 THEN "high" ELSE "medium"

(***************************************************************************)
(* C6, amended.  A breakout result has risk high if targetPct < 3 and      *)
(* medium otherwise; a breakout+divergence result has risk high whatever   *)
(* targetPct is; targetPct = (window's highest high - close) / close x 100.*)
(***************************************************************************)
C6_RiskAmended ==
    (Returned /\ R.signal \in BreakoutLabels) =>
        /\ R.target_pct = Some(Pct(MaxHigh(Window) * 1000, Close))
        /\ R.signal = "breakout" =>
              R.risk_level = IF TargetPctBelow3 THEN "high" ELSE "medium"
        /\ R.signal = "breakout+divergence" => R.risk_level = "high"

\* a breakout+divergence result with room of 3 percent or more
C6_Witness ==
    Returned /\ R.signal = "breakout+divergence" /\ ~TargetPctBelow3
    /\ R.risk_level = "high"

(***************************************************************************)
(* C7.  Every breakout or breakout+divergence result has entry = close,    *)
(* stop = max(band high x 0.98, close x 0.95), target = the window's       *)
(* highest high.                                                           *)
(***************************************************************************)
C7_BreakoutLevels ==
    (Returned /\ R.signal \in BreakoutLabels) =>
        /\ R.entry_price = Some(Close * 1000)
        /\ R.stop_loss = Some(Max2(ZS.high * 98, Close * 950))
        /\ R.target_price = Some(MaxHigh(Window) * 1000)

\* a breakout whose stop is the close x 0.95, above the band high x 0.98
C7_Witness ==
    Returned /\ R.signal \in BreakoutLabels /\ Close * 950 > ZS.high * 98
    /\ R.stop_loss = Some(Close * 950)

(***************************************************************************)
(* C8.  Without a sell pattern, with the close below the band and a        *)
(* down-stroke: bottom divergence gives base+divergence / buy / medium;    *)
(* otherwise reboundPct > 1 gives base / watch / high; otherwise none.     *)
(* Both base labels have stop = last down-stroke's end x 0.97 and target = *)
(* band low.                                                               *)
(***************************************************************************)
C8_Base ==
    Returned =>
        /\ (~SellPresent /\ BelowBand /\ DownStrokes # <<>>) =>
              IF BottomDivergence
              THEN R.signal = "base+divergence" /\ R.action = "buy"
                   /\ R.risk_level = "medium"
              ELSE IF ReboundOver1
              THEN R.signal = "base" /\ R.action = "watch" /\ R.risk_level = "high"
              ELSE R.signal = "none"
        /\ R.signal \in BaseLabels =>
              /\ R.stop_loss = Some(FromEnd(DownStrokes, 1).end * 970)
              /\ R.target_price = Some(ZS.low * 100)

\* bottom divergence decides although the rebound is 1 percent or less
C8_Witness ==
    Returned /\ ~SellPresent /\ BelowBand /\ DownStrokes # <<>>
    /\ BottomDivergence /\ ~ReboundOver1 /\ R.signal = "base+divergence"

(***************************************************************************)
(* C9.  When no sell pattern, breakout rule or base rule matches, the      *)
(* result is none / hold without any price level or percentage; and a      *)
(* result labelled none never carries a price level.                       *)
(***************************************************************************)
C9_None ==
    Returned =>
        /\ (~SellPresent /\ ~BreakoutRule /\ ~BaseRule) =>
              (R.signal = "none" /\ R.action = "hold" /\ NoPrices)
        /\ R.signal = "none" => NoPrices

\* the close is above the band and strokes exist, but the last up-stroke ends
\* inside or below the band
C9_Witness ==
    Returned /\ ~SellPresent /\ AboveBand /\ UpStrokes # <<>> /\ ~LastUpAboveBand
    /\ R.signal = "none"

(***************************************************************************)
(* C10.  The call returns None whenever the retrieval raises or returns    *)
(* nothing, and whenever the window it analyses has fewer than MinBars     *)
(* bars, for any lookback.                                                 *)
(***************************************************************************)
C10_NoneUnderMinBars ==
    (pc = "done" /\ (feed.outcome # "ok" \/ Len(Window) < MinBars)) => result = None


(***************************************************************************)
(* C11.  A scan goes through the whole list whatever the retrievals do,    *)
(* and the result list it leaves is, in the order of the list, the result  *)
(* of every symbol whose own analysis gives one: a symbol whose retrieval  *)
(* fails or falls short leaves no entry and changes no other entry.        *)
(***************************************************************************)
\* what the k-th symbol of the list gives when it is analysed on its own
Produced(k) ==
    WithCode(stock_list[k], analyze_stock(market[stock_list[k]], days).result)

RECURSIVE ProducedUpTo(_)
ProducedUpTo(n) ==
    IF n = 0 THEN <<>>
    ELSE IF Produced(n) = None THEN ProducedUpTo(n - 1)
         ELSE Append(ProducedUpTo(n - 1), Produced(n)[1])

C11_ScanCollects ==
    pc = "scanned" =>
        /\ scan_pos = Len(stock_list)
        /\ results = ProducedUpTo(Len(stock_list))

\* a failed retrieval first, a short one between two symbols that give results
C11_Witness ==
    /\ pc = "scanned"
    /\ Len(stock_list) = 3
    /\ Len(results) = 2
    /\ market[stock_list[2]].outcome = "raise"
    /\ results[1].code = stock_list[1]
    /\ results[2].code = stock_list[3]
    /\ results[1].signal # results[2].signal

(***************************************************************************)
(* C12.  handle_inclusion changes nothing when it is run on its own        *)
(* output: the same bars come back, with the same high, low, open and      *)
(* close.                                                                  *)
(***************************************************************************)
C12_InclusionIdempotent ==
    pc = "merged" => handle_inclusion(df_processed) = df_processed

(***************************************************************************)
(* C13.  In the output of handle_inclusion no bar's range contains the     *)
(* range of the bar next to it.                                            *)
(***************************************************************************)
Contains(a, b) == a.low <= b.low /\ b.high <= a.high

C13_NoAdjacentInclusion ==
    pc = "merged" =>
        \A k \in 1..(Len(df_processed) - 1) :
            /\ ~Contains(df_processed[k], df_processed[k + 1])
            /\ ~Contains(df_processed[k + 1], df_processed[k])

(***************************************************************************)
(* C17.  For every window that is not empty, the band calculate_zhongshu   *)
(* returns has its low edge at or under its high edge.                     *)
(***************************************************************************)
C17_BandOrdered == pc = "band" => zhongshu[1].low <= zhongshu[1].high

\* a window whose midpoints fall, with a band that is not a single price
C17_Witness ==
    /\ pc = "band"
    /\ Len(frame) >= 3
    /\ frame[1].high + frame[1].low > frame[2].high + frame[2].low
    /\ frame[2].high + frame[2].low > frame[3].high + frame[3].low
    /\ zhongshu[1].low < zhongshu[1].high

(***************************************************************************)
(* C14.  The strokes find_strokes returns alternate: no two consecutive    *)
(* strokes are both up or both down.                                       *)
(***************************************************************************)
C14_StrokesAlternate ==
    pc = "returned" =>
        \A k \in 1..(Len(strokes) - 1) : strokes[k].type # strokes[k + 1].type

(***************************************************************************)
(* The stroke scan meets a candidate of the other kind than the pending    *)
(* fractal.                                                                *)
(***************************************************************************)
Pending == current_stroke_start[1]
Candidate == At(fractal_list, fractal_pos)

OppositeMet ==
    /\ pc = "scan"
    /\ fractal_pos < Len(fractal_list)
    /\ current_stroke_start # None
    /\ Candidate.type # Pending.type

\* (a) the candidate is at least two merged bars after the pending fractal
FarEnough == Candidate.idx - Pending.idx >= 2
\* (b) the candidate's price extends past the pending price
ExtendsPast ==
    \/ Candidate.type = "top" /\ Candidate.price > Pending.price
    \/ Candidate.type = "bottom" /\ Candidate.price < Pending.price

PendingStronger ==
    \/ Pending.type = "top" /\ Pending.price > Candidate.price
    \/ Pending.type = "bottom" /\ Pending.price < Candidate.price
CandidateStronger ==
    \/ Pending.type = "top" /\ Candidate.price > Pending.price
    \/ Pending.type = "bottom" /\ Candidate.price < Pending.price

C20_RejectionKeepsStronger ==
    [][(OppositeMet /\ ~(FarEnough /\ ExtendsPast)) =>
        /\ strokes' = strokes
        /\ PendingStronger => current_stroke_start' = current_stroke_start
        /\ current_stroke_start' = Some(Candidate) => CandidateStronger]_vars

(***************************************************************************)
(* The two divergence patterns, read off the strokes, the band and the     *)
(* close that check_divergence was given.                                  *)
(***************************************************************************)
LastClose == FromEnd(frame, 1).close
LatestDrop == Abs(FromEnd(DownStrokes, 1).end - FromEnd(DownStrokes, 1).start)
PriorDrop == Abs(FromEnd(DownStrokes, 2).end - FromEnd(DownStrokes, 2).start)
NewLow ==
    Len(DownStrokes) >= 2 /\ FromEnd(DownStrokes, 1).end < FromEnd(DownStrokes, 2).end
LatestRise == FromEnd(UpStrokes, 1).end - FromEnd(UpStrokes, 1).start
PriorRise == FromEnd(UpStrokes, 2).end - FromEnd(UpStrokes, 2).start
NewHighSmallRise ==
    /\ Len(UpStrokes) >= 2
    /\ FromEnd(UpStrokes, 1).end > FromEnd(UpStrokes, 2).end
    /\ 10 * LatestRise < 12 * PriorRise
TopHolds == NewHighSmallRise /\ 10 * LastClose > ZS.high

(***************************************************************************)
(* C15.  As claimed: bottom divergence is reported exactly when there are  *)
(* two down-strokes, the latest ends under the prior one's end, the latest *)
(* drop is at least 0.8 times the prior drop, the close is under the band  *)
(* low, and top divergence does not hold.                                  *)
(***************************************************************************)
C15_BottomDivergenceIff ==
    pc = "checked" =>
        (BottomDivergence <=>
            /\ NewLow
            /\ 10 * LatestDrop >= 8 * PriorDrop
            /\ 10 * LastClose < ZS.low
            /\ ~TopHolds)

(***************************************************************************)
(* C15, amended.  The same with the latest drop strictly over 0.8 times    *)
(* the prior drop: a drop of exactly 0.8 times the prior drop reports no   *)
(* bottom divergence.                                                      *)
(***************************************************************************)
C15_BottomDivergenceStrict ==
    pc = "checked" =>
        (BottomDivergence <=>
            /\ NewLow
            /\ 10 * LatestDrop > 8 * PriorDrop
            /\ 10 * LastClose < ZS.low
            /\ ~TopHolds)

\* bottom divergence is reported, and the top check has run on two up-strokes
C15_Witness ==
    /\ pc = "checked"
    /\ BottomDivergence
    /\ Len(UpStrokes) >= 2

(***************************************************************************)
(* C16.  check_divergence reports one kind at most, and for a band with    *)
(* low <= high its bottom test and its top test never both pass: a bottom  *)
(* result is never overwritten by the top check.                           *)
(***************************************************************************)
C16_OneDivergence ==
    pc = "checked" =>
        /\ ~(/\ BottomDivergenceCond(frame, strokes, ZS)
             /\ TopDivergenceCond(frame, strokes, ZS))
        /\ BottomDivergenceCond(frame, strokes, ZS) => BottomDivergence
        /\ ~(BottomDivergence /\ TopDivergence)
        /\ divergence[1].has_divergence <=> (BottomDivergence \/ TopDivergence)

\* the strokes show both patterns, a new low on a large drop and a new high on
\* a small rise; the close is under the band and bottom is what is reported
C16_Witness ==
    /\ pc = "checked"
    /\ NewLow
    /\ 10 * LatestDrop > 8 * PriorDrop
    /\ NewHighSmallRise
    /\ BottomDivergence

(***************************************************************************)
(* C18.  A call on a flat window of at least MinBars bars, every bar with  *)
(* one and the same open, high, low and close, returns a result with no    *)
(* top fractal, no bottom fractal, no stroke and the label none.           *)
(***************************************************************************)
FlatWindow ==
    /\ Window # <<>>
    /\ \A k \in 1..Len(Window) :
        /\ Window[k].open = Window[1].open
        /\ Window[k].high = Window[1].open
        /\ Window[k].low = Window[1].open
        /\ Window[k].close = Window[1].open

C18_FlatWindow ==
    (pc = "done" /\ Len(Window) >= MinBars /\ FlatWindow) =>
        /\ result # None
        /\ R.ding_count = 0
        /\ R.di_count = 0
        /\ R.stroke_count = 0
        /\ strokes = <<>>
        /\ R.signal = "none"

C18_Witness ==
    /\ Returned
    /\ FlatWindow
    /\ Len(Window) > MinBars
    /\ R.signal = "none"
    /\ R.max_price = R.min_price
    /\ ZS.low = ZS.high
(***************************************************************************)
(* C21 (same-kind rule, lines 519-522).                                    *)
(***************************************************************************)
\* the loop meets a candidate of the pending fractal's kind
SameMet ==
    /\ pc = "scan"
    /\ fractal_pos < Len(fractal_list)
    /\ current_stroke_start # None
    /\ Candidate.type = Pending.type

\* the candidate is strictly higher (tops) or strictly lower (bottoms)
CandidateMoreExtreme ==
    \/ Candidate.type = "top" /\ Candidate.price > Pending.price
    \/ Candidate.type = "bottom" /\ Candidate.price < Pending.price

\* C21: when the candidate has the same kind as the pending fractal, the
\* pending fractal becomes the strictly more extreme of the two (the pending
\* one is kept on a tie) and the stroke list is unchanged.
C21_SameKindKeepsExtreme ==
    [][SameMet =>
        /\ strokes' = strokes
        /\ current_stroke_start' =
              Some(IF CandidateMoreExtreme THEN Candidate ELSE Pending)]_vars

\* the second of two bottoms, the lower one, has replaced the first
C21_Witness ==
    /\ pc = "scan"
    /\ fractal_pos = 2
    /\ fractal_list[1].type = "bottom"
    /\ fractal_list[2].type = "bottom"
    /\ fractal_list[2].price < fractal_list[1].price
    /\ current_stroke_start = Some(fractal_list[2])
    /\ strokes = <<>>

(***************************************************************************)
(* C22 (fractal rule, lines 456-474 and 486-492).  k is the 0-based index  *)
(* of the middle bar p2 among the merged bars.                             *)
(***************************************************************************)
\* find_strokes has run its loop over the merged bars
FractalsCollected ==
    /\ pc \in {"scan", "returned"}
    /\ Len(df_processed) >= 5

InteriorPositions == 1..(Len(df_processed) - 2)

TopRule(k) ==
    LET p1 == At(df_processed, k - 1)
        p2 == At(df_processed, k)
        p3 == At(df_processed, k + 1)
    IN p2.high > p1.high /\ p2.high > p3.high /\ p2.low > p1.low /\ p2.low > p3.low

BottomRule(k) ==
    LET p1 == At(df_processed, k - 1)
        p2 == At(df_processed, k)
        p3 == At(df_processed, k + 1)
    IN p2.high < p1.high /\ p2.high < p3.high /\ p2.low < p1.low /\ p2.low < p3.low

RecordedAt(k, t) == \E j \in 1..Len(fractal_list) :
    fractal_list[j].idx = k /\ fractal_list[j].type = t

TopPositions == {k \in InteriorPositions : TopRule(k)}
BottomPositions == {k \in InteriorPositions : BottomRule(k)}

\* C23, as stated: for every merged-bar sequence, those of fewer than 5 bars
\* included, the top count and the bottom count find_strokes reports are the
\* numbers of interior positions that satisfy the top rule and the bottom rule.
C23_CountsMatchRule ==
    pc = "returned" =>
        /\ ding_count = Cardinality(TopPositions)
        /\ di_count = Cardinality(BottomPositions)

\* C23, amended: for a sequence of 5 or more merged bars the two counts are the
\* numbers of interior positions that satisfy the top rule and the bottom
\* rule; for a shorter sequence both counts are 0.
C23_CountsFromFiveBars ==
    pc = "returned" =>
        IF Len(df_processed) >= 5
        THEN /\ ding_count = Cardinality(TopPositions)
             /\ di_count = Cardinality(BottomPositions)
        ELSE ding_count = 0 /\ di_count = 0

\* a sequence long enough, with tops and bottoms, the last interior bar among
\* them, has been counted
C23_Witness ==
    /\ pc = "returned"
    /\ Len(df_processed) >= 5
    /\ ding_count >= 2
    /\ di_count >= 2
    /\ Len(df_processed) - 2 \in TopPositions \cup BottomPositions

(***************************************************************************)
(* C24 (what a stroke is made of, lines 503-514).  The stroke list starts  *)
(* empty and changes only when the loop appends to it, so what holds of    *)
(* every appended stroke holds of every stroke.                            *)
(***************************************************************************)
DirectionConsistent(s) ==
    \/ s.type = "up" /\ s.end > s.start
    \/ s.type = "down" /\ s.end < s.start

\* C24: every stroke is directionally consistent (an up-stroke ends above its
\* start, a down-stroke below it), and the two fractals it runs between are at
\* least 2 merged-bar positions apart.
C24_StrokesConsistent ==
    [][strokes' # strokes =>
        LET s == strokes'[Len(strokes')] IN
        /\ strokes' = Append(strokes, s)
        /\ DirectionConsistent(s)
        /\ s.start = Pending.price
        /\ s.end = Candidate.price
        /\ Candidate.idx - Pending.idx >= 2]_vars

\* find_strokes has returned strokes of both directions
C24_Witness ==
    /\ pc = "returned"
    /\ \E j \in 1..Len(strokes) : strokes[j].type = "up"
    /\ \E j \in 1..Len(strokes) : strokes[j].type = "down"
    /\ \A j \in 1..Len(strokes) : DirectionConsistent(strokes[j])

(***************************************************************************)
(* C25 (stop and target of a buy-side result, lines 768-776 and 789-818).  *)
(* Every bar of every series has positive prices and low <= close <= high. *)
(***************************************************************************)
BuySide == Returned /\ R.signal \in BreakoutLabels \cup BaseLabels

\* C25: in every buy-side result (breakout, breakout+divergence, base,
\* base+divergence) the stop price is strictly below the entry price
\* (stop_loss_pct < 0) and the target price is at or above the entry price
\* (target_pct >= 0).
C25_StopBelowTargetAbove ==
    BuySide =>
        /\ R.stop_loss[1] < R.entry_price[1]
        /\ PctBelow(R.stop_loss_pct[1], 0)
        /\ R.target_price[1] >= R.entry_price[1]
        /\ ~PctBelow(R.target_pct[1], 0)

(***************************************************************************)
(* C26 (the stored history, lines 63-80).  In HistorySpec the clock counts *)
(* the saves, and save number k writes the record with timestamp k.        *)
(***************************************************************************)
\* C26: after any sequence of n save_analysis_history calls the stored history
\* holds at most 20 records: the min(n, 20) most recently saved ones, in the
\* order they were saved.
C26_HistoryKeepsLast20 ==
    pc = "history" =>
        LET m == Min2(now, 20) IN
        /\ Len(history) = m
        /\ \A k \in 1..m :
              history[k] = [timestamp |-> now - m + k, results |-> results]

\* more than 20 scans with results have been saved, and the oldest are gone
C26_Witness ==
    /\ pc = "history"
    /\ now > 20
    /\ results # <<>>
    /\ Len(history) = 20
    /\ history[1].timestamp = now - 19

(***************************************************************************)
(* C27 (the watchlist, lines 44-61).                                       *)
(***************************************************************************)
NoSharedCode(stored) ==
    \A a, b \in 1..Len(stored) : stored[a].code = stored[b].code => a = b

\* stored without its element at position k
Without(stored, k) == SubSeq(stored, 1, k - 1) \o SubSeq(stored, k + 1, Len(stored))

\* C27: starting from an empty watchlist, after every call no two entries share
\* a code; add_to_watchlist returns True and appends exactly one entry when the
\* code is absent, and returns False and leaves the list as it is when the code
\* is present; remove_from_watchlist deletes the entry with that code and keeps
\* the others in their order.
C27_Watchlist ==
    [][(pc = "watch" /\ (called' # called \/ watchlist' # watchlist)) =>
        LET c == called'[1]
            present == {k \in 1..Len(watchlist) : watchlist[k].code = c.code}
        IN /\ NoSharedCode(watchlist')
           /\ c.op = "add" =>
                IF present = {}
                THEN /\ c.returned = Some(TRUE)
                     /\ Len(watchlist') = Len(watchlist) + 1
                     /\ SubSeq(watchlist', 1, Len(watchlist)) = watchlist
                     /\ watchlist'[Len(watchlist')].code = c.code
                     /\ watchlist'[Len(watchlist')].name = c.name
                ELSE /\ c.returned = Some(FALSE)
                     /\ watchlist' = watchlist
           /\ c.op = "remove" =>
                IF present = {}
                THEN watchlist' = watchlist
                ELSE \E k \in present : watchlist' = Without(watchlist, k)]_vars

\* with two codes on the list, adding one of them again under another name
\* has returned False
C27_Witness ==
    /\ pc = "watch"
    /\ Len(watchlist) = 2
    /\ called # None
    /\ called[1].op = "add"
    /\ called[1].returned = Some(FALSE)
    /\ \E k \in 1..Len(watchlist) :
          watchlist[k].code = called[1].code /\ watchlist[k].name # called[1].name

====
